---- MODULE Spec2Model ----
(***************************************************************************)
(* Real-time collaboration engine of the AdWise campaign builder           *)
(* (app/websockets/collaboration.py): CollaborationManager, its            *)
(* CampaignCollaborationRoom objects and their UserSession objects.        *)
(*                                                                         *)
(* The code is asyncio code.  A coroutine runs without interruption until  *)
(* it awaits a transport write (websocket.send_text); there the event loop *)
(* may run any other coroutine.  The model keeps one call stack per task.   *)
(* Each function of the code is an operator that maps the machine state m  *)
(* to the state after the function's next step; an action of the model     *)
(* runs one task from where it starts or resumes to its next await or to   *)
(* its end (Run), as the event loop does.                                  *)
(*                                                                         *)
(* A Python dict is modelled as CPython keeps it: entries in insertion      *)
(* order, and an iterator that is a position in that order together with   *)
(* the size the dict had when the iterator was made and the number of      *)
(* entries it still expects.  CPython leaves a hole where an entry was     *)
(* deleted; the model closes the hole and moves the position of every      *)
(* iterator that had passed it one to the left, which leaves the entries   *)
(* each iterator still has to visit the same.  Objects (rooms, sessions)   *)
(* live on a heap; between the actions the objects nothing refers to are   *)
(* freed and the others are numbered in the order of the references to     *)
(* them (the code never looks at an object's address).                     *)
(***************************************************************************)
EXTENDS Integers, Sequences, FiniteSets, TLC

Users == {"A", "B"}
Fields == {"f1", "f2"}
CampaignOrder == <<"c1">>
Campaigns == {CampaignOrder[i] : i \in 1..Len(CampaignOrder)}
ConcFields == {"f1"}
ConcActors == Users \cup {"C"}
Values == {"v1"}
Positions == {"p1"}
TaskOrder == <<"t1", "t2">>
Tasks == {TaskOrder[i] : i \in 1..Len(TaskOrder)}
MaxSessions == 2
MaxRooms == 1
None == "None"

USER_JOINED == "user_joined"
USER_LEFT == "user_left"
CONTENT_CHANGED == "content_changed"
CURSOR_MOVED == "cursor_moved"
COMMENT_ADDED == "comment_added"
LOCK_ACQUIRED == "lock_acquired"
LOCK_RELEASED == "lock_released"
CONFLICT_DETECTED == "conflict_detected"
SYNC_REQUEST == "sync_request"
SYNC_RESPONSE == "sync_response"
MessageKinds == {USER_JOINED, USER_LEFT, CONTENT_CHANGED, CURSOR_MOVED, LOCK_ACQUIRED, LOCK_RELEASED,
                 SYNC_REQUEST, COMMENT_ADDED}
ConcKinds == {CONTENT_CHANGED, LOCK_ACQUIRED}

VARIABLES
    rooms,   \* CollaborationManager.rooms: campaign id -> room object (0: no key)
    room,    \* heap of room objects: users, content_locks, change_history, stale
    sess,    \* heap of UserSession objects: uid, conn (websocket connected), cursor_position, active_locks
    task,    \* per task: call stack, top-level operation, sends made, result
    cur,     \* the task that is running (None between the actions)
    ret,     \* the calls that returned or raised in the last action, in order
    stream   \* StreamingManager: connections, sessions, sockets, and the generator being iterated

vars == <<rooms, room, sess, task, cur, ret, stream>>

(* the machine state as one value *)
M == [rooms |-> rooms, room |-> room, sess |-> sess, task |-> task, cur |-> cur, ret |-> ret]

NoLocks == [f \in Fields |-> None]
NoSnap == [keys |-> {}, locks |-> NoLocks, active |-> [u \in Users |-> {}], hist |-> <<>>]
NoCursors == [u \in Users |-> None]
NoEvent == [type |-> None, user |-> None, f |-> None, position |-> None, who |-> {}, cursors |-> NoCursors,
            locks |-> NoLocks, changes |-> <<>>]
Frame0 == [fn |-> None, pc |-> "start", rid |-> 0, c |-> None, uid |-> None, f |-> None,
           sid |-> 0, ev |-> NoEvent, excl |-> None, pos |-> 0, used |-> 0, left |-> 0,
           disc |-> <<>>, ltr |-> <<>>, i |-> 1, val |-> None, att |-> <<>>,
           kind |-> None, new |-> None, position |-> None, pre |-> NoSnap, n0 |-> 0]
NoOp == [kind |-> None, c |-> None, uid |-> None, f |-> None]
IdleTask == [stack |-> <<>>, op |-> NoOp, sent |-> <<>>, res |-> "idle"]

(* CampaignCollaborationRoom.__init__ *)
NewRoom == [users |-> <<>>, content_locks |-> NoLocks, change_history |-> <<>>, stale |-> FALSE]
(* UserSession.__init__ *)
NewSession(u) == [uid |-> u, conn |-> TRUE, cursor_position |-> None, active_locks |-> {}]
FreeSession == [uid |-> None, conn |-> FALSE, cursor_position |-> None, active_locks |-> {}]

(* ---- heap: an object lives while the directory, a room or a frame refers to it ---- *)
FrameRefs(tk, field) == UNION {{tk[t].stack[k][field] : k \in 1..Len(tk[t].stack)} : t \in Tasks}
RefRooms(rs, tk) == ({rs[c] : c \in Campaigns} \cup FrameRefs(tk, "rid")) \ {0}
RefSess(rm, tk) == (UNION {{rm[r].users[i] : i \in 1..Len(rm[r].users)} : r \in 1..MaxRooms}
                    \cup FrameRefs(tk, "sid")) \ {0}
FreeRoom(m) == CHOOSE r \in 1..MaxRooms : r \notin RefRooms(m.rooms, m.task)
                                          /\ \A q \in 1..(r - 1) : q \in RefRooms(m.rooms, m.task)
FreeSess(m) == CHOOSE s \in 1..MaxSessions : s \notin RefSess(m.room, m.task)
                                             /\ \A q \in 1..(s - 1) : q \in RefSess(m.room, m.task)

(* the objects in the order in which the directory, the rooms and the frames refer to them *)
RECURSIVE Concat(_)
Concat(ss) == IF ss = <<>> THEN <<>> ELSE ss[1] \o Concat(Tail(ss))
RECURSIVE Distinct(_)
Distinct(s) ==
    IF s = <<>> THEN <<>>
    ELSE LET d == Distinct(SubSeq(s, 1, Len(s) - 1))
             x == s[Len(s)] IN
         IF x = 0 \/ \E i \in 1..Len(d) : d[i] = x THEN d ELSE Append(d, x)
Index(s, x) == IF x = 0 THEN 0 ELSE CHOOSE i \in 1..Len(s) : s[i] = x
FrameRefSeq(tk, field) ==
    Concat([i \in 1..Len(TaskOrder) |->
               [k \in 1..Len(tk[TaskOrder[i]].stack) |-> tk[TaskOrder[i]].stack[k][field]]])
RoomSeq(m) == Distinct([i \in 1..Len(CampaignOrder) |-> m.rooms[CampaignOrder[i]]] \o FrameRefSeq(m.task, "rid"))
SessSeq(m) == Distinct(Concat([i \in 1..Len(RoomSeq(m)) |-> m.room[RoomSeq(m)[i]].users]) \o FrameRefSeq(m.task, "sid"))

(* the heap without the objects nothing refers to, the others in that order *)
Renumbered(m, rs, ss) ==
    LET users2(us) == [k \in 1..Len(us) |-> Index(ss, us[k])]
        frame2(fr) == [fr EXCEPT !.rid = Index(rs, fr.rid), !.sid = Index(ss, fr.sid)]
        stack2(st) == [k \in 1..Len(st) |-> frame2(st[k])] IN
    [m EXCEPT !.rooms = [c \in Campaigns |-> Index(rs, m.rooms[c])],
              !.room = [r \in 1..MaxRooms |->
                           IF r <= Len(rs) THEN [m.room[rs[r]] EXCEPT !.users = users2(m.room[rs[r]].users)]
                           ELSE NewRoom],
              !.sess = [x \in 1..MaxSessions |-> IF x <= Len(ss) THEN m.sess[ss[x]] ELSE FreeSession],
              !.task = [t \in Tasks |-> [m.task[t] EXCEPT !.stack = stack2(m.task[t].stack)]]]
Collected(m) == Renumbered(m, RoomSeq(m), SessSeq(m))

(* ---- dict self.users: the sessions in insertion order of their keys ---- *)
Keys(m, us) == {m.sess[us[i]].uid : i \in 1..Len(us)}
Idx(m, us, u) == CHOOSE i \in 1..Len(us) : m.sess[us[i]].uid = u
SidOf(m, us, u) == us[Idx(m, us, u)]
DictSet(m, us, u, sid) == IF u \in Keys(m, us) THEN [us EXCEPT ![Idx(m, us, u)] = sid] ELSE Append(us, sid)
DictDel(m, us, u) == SubSeq(us, 1, Idx(m, us, u) - 1) \o SubSeq(us, Idx(m, us, u) + 1, Len(us))
(* the iterators of the coroutines over the dict of room rid, after entry k was deleted *)
Deleted(tk, rid, k) ==
    [t \in Tasks |->
        [tk[t] EXCEPT !.stack =
            [j \in 1..Len(tk[t].stack) |->
                LET fr == tk[t].stack[j] IN
                IF fr.fn = "broadcast_event" /\ fr.rid = rid /\ fr.pc # "clean" /\ fr.pos >= k
                THEN [fr EXCEPT !.pos = @ - 1] ELSE fr]]]

Orders(S) == {s \in [1..Cardinality(S) -> S] : \A i, j \in 1..Cardinality(S) : s[i] = s[j] => i = j}
Last10(h) == IF Len(h) > 10 THEN SubSeq(h, Len(h) - 9, Len(h)) ELSE h

(* what a call sees of its room: taken when the call is made and when it returns *)
Snapshot(m, rid) ==
    IF rid = 0 THEN NoSnap
    ELSE LET rm == m.room[rid] IN
         [keys |-> Keys(m, rm.users), locks |-> rm.content_locks,
          active |-> [u \in Users |-> IF u \in Keys(m, rm.users)
                                      THEN m.sess[SidOf(m, rm.users, u)].active_locks ELSE {}],
          hist |-> rm.change_history]

(* ---- ChangeEntry (pydantic model): the fields declared with Field(...) are required ---- *)
ChangeEntryRequired == {"user_id", "action"}
ChangeEntryValid(kwargs) == ChangeEntryRequired \subseteq DOMAIN kwargs

(* ---- call stack ---- *)
Stack(m, t) == m.task[t].stack
Top(m, t) == Stack(m, t)[Len(Stack(m, t))]
Rest(m, t) == SubSeq(Stack(m, t), 1, Len(Stack(m, t)) - 1)
Returned(m, t, fr, v) ==
    [t |-> t, fr |-> [fr EXCEPT !.val = v, !.rid = 0, !.sid = 0], n1 |-> Len(m.task[t].sent),
     post |-> Snapshot(m, fr.rid)]

Call(m, t, fr, callee) ==
    [m EXCEPT !.task[t].stack = Append(Append(Rest(m, t), fr),
                                       [callee EXCEPT !.pre = Snapshot(m, callee.rid), !.n0 = Len(m.task[t].sent)])]
Jump(m, t, fr) == [m EXCEPT !.task[t].stack = Append(Rest(m, t), fr)]
Return(m, t, v) ==
    [m EXCEPT !.task[t].stack = Rest(m, t),
              !.task[t].res = IF Rest(m, t) = <<>> THEN v ELSE @,
              !.cur = IF Rest(m, t) = <<>> THEN None ELSE t,
              !.ret = Append(@, Returned(m, t, Top(m, t), v))]
(* an exception nothing catches ends every call of the stack, the innermost first *)
Raise(m, t, exc) ==
    [m EXCEPT !.task[t].stack = <<>>, !.task[t].res = exc, !.cur = None,
              !.ret = @ \o [k \in 1..Len(Stack(m, t)) |->
                               Returned(m, t, Stack(m, t)[Len(Stack(m, t)) + 1 - k], exc)]]

Event(type, u, f, who) == [NoEvent EXCEPT !.type = type, !.user = u, !.f = f, !.who = who]
SendFrame(rid, sid, ev) == [Frame0 EXCEPT !.fn = "send_event", !.rid = rid, !.sid = sid, !.ev = ev]
BroadcastFrame(rid, us, ev, excl) ==
    [Frame0 EXCEPT !.fn = "broadcast_event", !.pc = "loop", !.rid = rid, !.ev = ev, !.excl = excl,
                   !.used = Len(us), !.left = Len(us)]
RoomFrame(fn, rid, u, f) == [Frame0 EXCEPT !.fn = fn, !.rid = rid, !.uid = u, !.f = f]
Sent(m, fr, ok) == [to |-> m.sess[fr.sid].uid, ev |-> fr.ev, ok |-> ok]

(* ---- UserSession.update_cursor ---- *)
update_cursor(m, sid, position) == [m EXCEPT !.sess[sid].cursor_position = position]

(* ---- UserSession.send_event: "start" up to the await, "wait" after it ---- *)
(* send_event that lets the exception of a failed write out *)
send_event_raising(m, t) ==
    LET fr == Top(m, t)
        ok == m.sess[fr.sid].conn
        logged == [m EXCEPT !.task[t].sent = Append(@, Sent(m, fr, ok))] IN
    IF fr.pc = "start" /\ ok
    THEN [Jump(m, t, [fr EXCEPT !.pc = "wait"]) EXCEPT !.cur = None]
    ELSE IF fr.pc = "wait" /\ ~ok THEN Raise(logged, t, "WebSocketDisconnect")
    ELSE Return(logged, t, IF ok THEN "True" ELSE "False")

send_event(m, t) ==
    LET fr == Top(m, t)
        ok == m.sess[fr.sid].conn
        logged == [m EXCEPT !.task[t].sent = Append(@, Sent(m, fr, ok))] IN
    IF fr.pc = "start" /\ ok
    THEN [Jump(m, t, [fr EXCEPT !.pc = "wait"]) EXCEPT !.cur = None]
    ELSE Return(logged, t, IF ok THEN "True" ELSE "False")

(* ---- CampaignCollaborationRoom.broadcast_event ---- *)
broadcast_event(m, t) ==
    LET fr == Top(m, t)
        us == m.room[fr.rid].users
        last == m.ret[Len(m.ret)].fr IN
    CASE fr.pc = "loop" ->
           IF Len(us) # fr.used THEN Raise(m, t, "RuntimeError")
           ELSE IF fr.pos >= Len(us) THEN Jump(m, t, [fr EXCEPT !.pc = "clean", !.pos = 0, !.i = 1])
           ELSE IF fr.left = 0 THEN Raise(m, t, "RuntimeError")
           ELSE LET sid == us[fr.pos + 1]
                    fr2 == [fr EXCEPT !.pos = @ + 1, !.left = @ - 1] IN
                IF fr.excl # None /\ m.sess[sid].uid = fr.excl
                THEN Jump(m, t, fr2)
                ELSE Call(m, t, [fr2 EXCEPT !.pc = "sent", !.uid = m.sess[sid].uid], SendFrame(fr.rid, sid, fr.ev))
      [] fr.pc = "sent" ->
           Jump(m, t, [fr EXCEPT !.pc = "loop", !.uid = None, !.att = Append(@, fr.uid),
                                 !.disc = IF last.val = "False" THEN Append(@, fr.uid) ELSE @])
      [] fr.pc = "clean" ->
           IF fr.i > Len(fr.disc) THEN Return(m, t, None)
           ELSE Call(m, t, [fr EXCEPT !.i = @ + 1], RoomFrame("remove_user", fr.rid, fr.disc[fr.i], None))

(* ---- CampaignCollaborationRoom.add_user ---- *)
add_user(m, t) ==
    LET fr == Top(m, t)
        rm == m.room[fr.rid]
        us2 == DictSet(m, rm.users, fr.uid, fr.sid)
        m2 == [m EXCEPT !.room[fr.rid].users = us2, !.room[fr.rid].stale = FALSE] IN
    CASE fr.pc = "start" ->
           Call(m2, t, [fr EXCEPT !.pc = "sync"],
                BroadcastFrame(fr.rid, us2, Event(USER_JOINED, fr.uid, None, Keys(m, us2)), fr.uid))
      [] fr.pc = "sync" ->
           Call(m, t, [fr EXCEPT !.pc = "ret", !.sid = 0],
                [RoomFrame("send_current_state", fr.rid, fr.uid, None) EXCEPT !.sid = fr.sid])
      [] fr.pc = "ret" -> Return(m, t, None)

(* send_current_state without the filter that leaves the receiver out of active_users *)
send_current_state_with_receiver(m, t) ==
    LET fr == Top(m, t)
        rm == m.room[fr.rid]
        state_data == [NoEvent EXCEPT !.type = SYNC_RESPONSE, !.user = "system",
                                      !.who = Keys(m, rm.users),
                                      !.cursors = [u \in Users |->
                                                      IF u \in Keys(m, rm.users)
                                                      THEN m.sess[SidOf(m, rm.users, u)].cursor_position
                                                      ELSE None],
                                      !.locks = rm.content_locks,
                                      !.changes = Last10(rm.change_history)] IN
    CASE fr.pc = "start" -> Call(m, t, [fr EXCEPT !.pc = "ret", !.sid = 0], SendFrame(fr.rid, fr.sid, state_data))
      [] fr.pc = "ret" -> Return(m, t, None)

(* ---- CampaignCollaborationRoom.send_current_state ---- *)
send_current_state(m, t) ==
    LET fr == Top(m, t)
        rm == m.room[fr.rid]
        state_data == [NoEvent EXCEPT !.type = SYNC_RESPONSE, !.user = "system",
                                      !.who = Keys(m, rm.users) \ {m.sess[fr.sid].uid},
                                      !.cursors = [u \in Users |->
                                                      IF u \in Keys(m, rm.users) \ {m.sess[fr.sid].uid}
                                                      THEN m.sess[SidOf(m, rm.users, u)].cursor_position
                                                      ELSE None],
                                      !.locks = rm.content_locks,
                                      !.changes = Last10(rm.change_history)] IN
    CASE fr.pc = "start" -> Call(m, t, [fr EXCEPT !.pc = "ret", !.sid = 0], SendFrame(fr.rid, fr.sid, state_data))
      [] fr.pc = "ret" -> Return(m, t, None)

(* release_lock without the comparison of the holder with the caller *)
release_lock_of_any_holder(m, t) ==
    LET fr == Top(m, t)
        rm == m.room[fr.rid]
        m2 == [m EXCEPT !.room[fr.rid].content_locks[fr.f] = None,
                        !.sess = IF fr.uid \in Keys(m, rm.users)
                                 THEN [@ EXCEPT ![SidOf(m, rm.users, fr.uid)].active_locks = @ \ {fr.f}]
                                 ELSE @] IN
    CASE fr.pc = "start" ->
           IF rm.content_locks[fr.f] # None
           THEN Call(m2, t, [fr EXCEPT !.pc = "ret"],
                     BroadcastFrame(fr.rid, rm.users, Event(LOCK_RELEASED, fr.uid, fr.f, {}), fr.uid))
           ELSE Return(m, t, None)
      [] fr.pc = "ret" -> Return(m, t, None)

(* ---- CampaignCollaborationRoom.release_lock ---- *)
release_lock(m, t) ==
    LET fr == Top(m, t)
        rm == m.room[fr.rid]
        m2 == [m EXCEPT !.room[fr.rid].content_locks[fr.f] = None,
                        !.sess = IF fr.uid \in Keys(m, rm.users)
                                 THEN [@ EXCEPT ![SidOf(m, rm.users, fr.uid)].active_locks = @ \ {fr.f}]
                                 ELSE @] IN
    CASE fr.pc = "start" ->
           IF rm.content_locks[fr.f] # None /\ rm.content_locks[fr.f] = fr.uid
           THEN Call(m2, t, [fr EXCEPT !.pc = "ret"],
                     BroadcastFrame(fr.rid, rm.users, Event(LOCK_RELEASED, fr.uid, fr.f, {}), fr.uid))
           ELSE Return(m, t, None)
      [] fr.pc = "ret" -> Return(m, t, None)

(* ---- CampaignCollaborationRoom.release_user_locks (order: the iteration order of the set) ---- *)
release_user_locks(m, t, order) ==
    LET fr == Top(m, t)
        rm == m.room[fr.rid]
        held(f) == f \in m.sess[SidOf(m, rm.users, fr.uid)].active_locks
        locks_to_release == SelectSeq(order, held) IN
    CASE fr.pc = "start" ->
           IF fr.uid \notin Keys(m, rm.users) THEN Return(m, t, None)
           ELSE Jump(m, t, [fr EXCEPT !.pc = "loop", !.ltr = locks_to_release, !.i = 1])
      [] fr.pc = "loop" ->
           IF fr.i > Len(fr.ltr) THEN Return(m, t, None)
           ELSE Call(m, t, [fr EXCEPT !.i = @ + 1], RoomFrame("release_lock", fr.rid, fr.uid, fr.ltr[fr.i]))

(* remove_user that announces the departure of an actor it does not find *)
remove_user_unchecked(m, t) ==
    LET fr == Top(m, t)
        rm == m.room[fr.rid]
        us2 == DictDel(m, rm.users, fr.uid)
        m2 == [m EXCEPT !.room[fr.rid].users = us2, !.room[fr.rid].stale = FALSE,
                        !.task = Deleted(@, fr.rid, Idx(m, rm.users, fr.uid))] IN
    CASE fr.pc = "start" ->
           IF fr.uid \notin Keys(m, rm.users)
           THEN Call(m, t, [fr EXCEPT !.pc = "ret"],
                     BroadcastFrame(fr.rid, rm.users, Event(USER_LEFT, fr.uid, None, Keys(m, rm.users)), fr.uid))
           ELSE Call(m, t, [fr EXCEPT !.pc = "del"], RoomFrame("release_user_locks", fr.rid, fr.uid, None))
      [] fr.pc = "del" ->
           IF fr.uid \notin Keys(m, rm.users) THEN Raise(m, t, "KeyError")
           ELSE Call(m2, t, [fr EXCEPT !.pc = "ret"],
                     BroadcastFrame(fr.rid, us2, Event(USER_LEFT, fr.uid, None, Keys(m, us2)), fr.uid))
      [] fr.pc = "ret" -> Return(m, t, None)

(* ---- CampaignCollaborationRoom.remove_user ---- *)
remove_user(m, t) ==
    LET fr == Top(m, t)
        rm == m.room[fr.rid]
        us2 == DictDel(m, rm.users, fr.uid)
        m2 == [m EXCEPT !.room[fr.rid].users = us2, !.room[fr.rid].stale = FALSE,
                        !.task = Deleted(@, fr.rid, Idx(m, rm.users, fr.uid))] IN
    CASE fr.pc = "start" ->
           IF fr.uid \notin Keys(m, rm.users) THEN Return(m, t, None)
           ELSE Call(m, t, [fr EXCEPT !.pc = "del"], RoomFrame("release_user_locks", fr.rid, fr.uid, None))
      [] fr.pc = "del" ->
           IF fr.uid \notin Keys(m, rm.users) THEN Raise(m, t, "KeyError")
           ELSE Call(m2, t, [fr EXCEPT !.pc = "ret"],
                     BroadcastFrame(fr.rid, us2, Event(USER_LEFT, fr.uid, None, Keys(m, us2)), fr.uid))
      [] fr.pc = "ret" -> Return(m, t, None)

(* ---- CampaignCollaborationRoom.handle_cursor_movement ---- *)
(* handle_cursor_movement that relays nothing while another actor holds a path *)
handle_cursor_movement_checking_locks(m, t) ==
    LET fr == Top(m, t)
        rm == m.room[fr.rid] IN
    CASE fr.pc = "start" ->
           IF fr.uid \in Keys(m, rm.users) /\ \A f \in Fields : rm.content_locks[f] \in {None, fr.uid}
           THEN Call(update_cursor(m, SidOf(m, rm.users, fr.uid), fr.position), t, [fr EXCEPT !.pc = "ret"],
                     BroadcastFrame(fr.rid, rm.users,
                                    [Event(CURSOR_MOVED, fr.uid, None, {}) EXCEPT !.position = fr.position],
                                    fr.uid))
           ELSE Return(m, t, None)
      [] fr.pc = "ret" -> Return(m, t, None)

handle_cursor_movement(m, t) ==
    LET fr == Top(m, t)
        rm == m.room[fr.rid] IN
    CASE fr.pc = "start" ->
           IF fr.uid \in Keys(m, rm.users)
           THEN Call(update_cursor(m, SidOf(m, rm.users, fr.uid), fr.position), t, [fr EXCEPT !.pc = "ret"],
                     BroadcastFrame(fr.rid, rm.users,
                                    [Event(CURSOR_MOVED, fr.uid, None, {}) EXCEPT !.position = fr.position],
                                    fr.uid))
           ELSE Return(m, t, None)
      [] fr.pc = "ret" -> Return(m, t, None)

(* ---- CampaignCollaborationRoom.acquire_lock ---- *)
(* acquire_lock that does not look whether the path has a holder *)
acquire_lock_unchecked(m, t) ==
    LET fr == Top(m, t)
        rm == m.room[fr.rid]
        m2 == [m EXCEPT !.room[fr.rid].content_locks[fr.f] = fr.uid,
                        !.sess = IF fr.uid \in Keys(m, rm.users)
                                 THEN [@ EXCEPT ![SidOf(m, rm.users, fr.uid)].active_locks = @ \cup {fr.f}]
                                 ELSE @] IN
    CASE fr.pc = "start" ->
           Call(m2, t, [fr EXCEPT !.pc = "ret"],
                BroadcastFrame(fr.rid, rm.users, Event(LOCK_ACQUIRED, fr.uid, fr.f, {}), fr.uid))
      [] fr.pc = "ret" -> Return(m, t, "True")

acquire_lock(m, t) ==
    LET fr == Top(m, t)
        rm == m.room[fr.rid]
        m2 == [m EXCEPT !.room[fr.rid].content_locks[fr.f] = fr.uid,
                        !.sess = IF fr.uid \in Keys(m, rm.users)
                                 THEN [@ EXCEPT ![SidOf(m, rm.users, fr.uid)].active_locks = @ \cup {fr.f}]
                                 ELSE @] IN
    CASE fr.pc = "start" ->
           IF rm.content_locks[fr.f] # None THEN Return(m, t, "False")
           ELSE Call(m2, t, [fr EXCEPT !.pc = "ret"],
                     BroadcastFrame(fr.rid, rm.users, Event(LOCK_ACQUIRED, fr.uid, fr.f, {}), fr.uid))
      [] fr.pc = "ret" -> Return(m, t, "True")

(* send_conflict_notification that writes to the holder's session *)
send_conflict_notification_to_holder(m, t) ==
    LET fr == Top(m, t)
        rm == m.room[fr.rid]
        locked_by == rm.content_locks[fr.f] IN
    CASE fr.pc = "start" ->
           IF fr.uid \notin Keys(m, rm.users) THEN Return(m, t, None)
           ELSE IF locked_by \notin Keys(m, rm.users) THEN Raise(m, t, "KeyError")
           ELSE Call(m, t, [fr EXCEPT !.pc = "ret"],
                     SendFrame(fr.rid, SidOf(m, rm.users, locked_by), Event(CONFLICT_DETECTED, fr.uid, fr.f, {locked_by})))
      [] fr.pc = "ret" -> Return(m, t, None)

(* ---- CampaignCollaborationRoom.send_conflict_notification ---- *)
send_conflict_notification(m, t) ==
    LET fr == Top(m, t)
        rm == m.room[fr.rid]
        locked_by == rm.content_locks[fr.f] IN
    CASE fr.pc = "start" ->
           IF fr.uid \notin Keys(m, rm.users) THEN Return(m, t, None)
           ELSE Call(m, t, [fr EXCEPT !.pc = "ret"],
                     SendFrame(fr.rid, SidOf(m, rm.users, fr.uid), Event(CONFLICT_DETECTED, fr.uid, fr.f, {locked_by})))
      [] fr.pc = "ret" -> Return(m, t, None)

(* ---- CampaignCollaborationRoom.persist_change: awaits the store, swallows its errors ---- *)
persist_change(fr) == [fr EXCEPT !.pc = "ret"]

(* ---- CampaignCollaborationRoom.handle_content_change ---- *)
handle_content_change(m, t) ==
    LET fr == Top(m, t)
        rm == m.room[fr.rid]
        kwargs == [timestamp |-> "now", user_id |-> fr.uid, change_type |-> "update",
                   details |-> [field_path |-> fr.f, old_value |-> "v0", new_value |-> fr.new]]
        m2 == [m EXCEPT !.room[fr.rid].change_history = Append(@, kwargs), !.room[fr.rid].stale = FALSE] IN
    CASE fr.pc = "start" ->
           IF rm.content_locks[fr.f] # None /\ rm.content_locks[fr.f] # fr.uid
           THEN Call(m, t, [fr EXCEPT !.pc = "ret"], RoomFrame("send_conflict_notification", fr.rid, fr.uid, fr.f))
           ELSE IF ~ChangeEntryValid(kwargs) THEN Raise(m, t, "ValidationError")
           ELSE Call(m2, t, [fr EXCEPT !.pc = "persist"],
                     BroadcastFrame(fr.rid, rm.users, Event(CONTENT_CHANGED, fr.uid, fr.f, {}), fr.uid))
      [] fr.pc = "persist" -> Jump(m, t, persist_change(fr))
      [] fr.pc = "ret" -> Return(m, t, None)

(* ---- CollaborationManager.get_or_create_room ---- *)
(* get_or_create_room that makes a new room of every call *)
get_or_create_room_replacing(m, c) ==
    IF m.rooms[c] = 0 THEN [m EXCEPT !.rooms[c] = FreeRoom(m), !.room[FreeRoom(m)] = NewRoom]
    ELSE [m EXCEPT !.room[m.rooms[c]] = NewRoom]

get_or_create_room(m, c) ==
    IF m.rooms[c] = 0 THEN [m EXCEPT !.rooms[c] = FreeRoom(m), !.room[FreeRoom(m)] = NewRoom]
    ELSE m

(* ---- CollaborationManager.join_campaign ---- *)
join_campaign(m, t) ==
    LET fr == Top(m, t)
        m1 == get_or_create_room(m, fr.c)
        rid == m1.rooms[fr.c]
        sid == FreeSess(m)
        m2 == [m1 EXCEPT !.sess[sid] = NewSession(fr.uid)] IN
    CASE fr.pc = "start" ->
           Call(m2, t, [fr EXCEPT !.pc = "ret"], [RoomFrame("add_user", rid, fr.uid, None) EXCEPT !.sid = sid])
      [] fr.pc = "ret" -> Return(m, t, None)

(* leave_campaign that leaves the empty room to the sweep *)
leave_campaign_keeping_room(m, t) ==
    LET fr == Top(m, t) IN
    CASE fr.pc = "start" ->
           IF m.rooms[fr.c] # 0
           THEN Call(m, t, [fr EXCEPT !.pc = "cleanup"], RoomFrame("remove_user", m.rooms[fr.c], fr.uid, None))
           ELSE Return(m, t, None)
      [] fr.pc = "cleanup" ->
           IF m.rooms[fr.c] = 0 THEN Raise(m, t, "KeyError")
           ELSE Return(m, t, None)

(* ---- CollaborationManager.leave_campaign ---- *)
leave_campaign(m, t) ==
    LET fr == Top(m, t) IN
    CASE fr.pc = "start" ->
           IF m.rooms[fr.c] # 0
           THEN Call(m, t, [fr EXCEPT !.pc = "cleanup"], RoomFrame("remove_user", m.rooms[fr.c], fr.uid, None))
           ELSE Return(m, t, None)
      [] fr.pc = "cleanup" ->
           IF m.rooms[fr.c] = 0 THEN Raise(m, t, "KeyError")
           ELSE IF m.room[m.rooms[fr.c]].users = <<>>
           THEN Return([m EXCEPT !.rooms[fr.c] = 0], t, None)
           ELSE Return(m, t, None)

(* ---- CollaborationManager.handle_websocket_message ---- *)
(* handle_websocket_message that also routes a leave message, to remove_user *)
handle_websocket_message_routing_leave(m, t) ==
    LET fr == Top(m, t)
        rid == m.rooms[fr.c]
        fr2 == [fr EXCEPT !.pc = "ret"] IN
    CASE fr.pc = "start" ->
           IF rid = 0 THEN Return(m, t, None)
           ELSE IF fr.kind = CONTENT_CHANGED
           THEN Call(m, t, fr2, [RoomFrame("handle_content_change", rid, fr.uid, fr.f) EXCEPT !.new = fr.new])
           ELSE IF fr.kind = CURSOR_MOVED
           THEN Call(m, t, fr2, [RoomFrame("handle_cursor_movement", rid, fr.uid, None)
                                   EXCEPT !.position = fr.position])
           ELSE IF fr.kind = LOCK_ACQUIRED
           THEN Call(m, t, fr2, RoomFrame("acquire_lock", rid, fr.uid, fr.f))
           ELSE IF fr.kind = LOCK_RELEASED
           THEN Call(m, t, fr2, RoomFrame("release_lock", rid, fr.uid, fr.f))
           ELSE IF fr.kind = USER_LEFT
           THEN Call(m, t, fr2, RoomFrame("remove_user", rid, fr.uid, None))
           ELSE IF fr.kind = SYNC_REQUEST
           THEN IF fr.uid \in Keys(m, m.room[rid].users)
                THEN Call(m, t, fr2, [RoomFrame("send_current_state", rid, fr.uid, None)
                                        EXCEPT !.sid = SidOf(m, m.room[rid].users, fr.uid)])
                ELSE Return(m, t, None)
           ELSE Return(m, t, None)
      [] fr.pc = "ret" -> Return(m, t, None)

handle_websocket_message(m, t) ==
    LET fr == Top(m, t)
        rid == m.rooms[fr.c]
        fr2 == [fr EXCEPT !.pc = "ret"] IN
    CASE fr.pc = "start" ->
           IF rid = 0 THEN Return(m, t, None)
           ELSE IF fr.kind = CONTENT_CHANGED
           THEN Call(m, t, fr2, [RoomFrame("handle_content_change", rid, fr.uid, fr.f) EXCEPT !.new = fr.new])
           ELSE IF fr.kind = CURSOR_MOVED
           THEN Call(m, t, fr2, [RoomFrame("handle_cursor_movement", rid, fr.uid, None)
                                   EXCEPT !.position = fr.position])
           ELSE IF fr.kind = LOCK_ACQUIRED
           THEN Call(m, t, fr2, RoomFrame("acquire_lock", rid, fr.uid, fr.f))
           ELSE IF fr.kind = LOCK_RELEASED
           THEN Call(m, t, fr2, RoomFrame("release_lock", rid, fr.uid, fr.f))
           ELSE IF fr.kind = SYNC_REQUEST
           THEN IF fr.uid \in Keys(m, m.room[rid].users)
                THEN Call(m, t, fr2, [RoomFrame("send_current_state", rid, fr.uid, None)
                                        EXCEPT !.sid = SidOf(m, m.room[rid].users, fr.uid)])
                ELSE Return(m, t, None)
           ELSE Return(m, t, None)
      [] fr.pc = "ret" -> Return(m, t, None)

(* ---- the running coroutine's next step, and its run to the next await or to its end ---- *)
Step(m, order) ==
    LET t == m.cur
        fn == Top(m, t).fn IN
    CASE fn = "send_event" -> send_event(m, t)
      [] fn = "broadcast_event" -> broadcast_event(m, t)
      [] fn = "add_user" -> add_user(m, t)
      [] fn = "send_current_state" -> send_current_state(m, t)
      [] fn = "release_lock" -> release_lock(m, t)
      [] fn = "release_user_locks" -> release_user_locks(m, t, order)
      [] fn = "remove_user" -> remove_user(m, t)
      [] fn = "handle_cursor_movement" -> handle_cursor_movement(m, t)
      [] fn = "acquire_lock" -> acquire_lock(m, t)
      [] fn = "send_conflict_notification" -> send_conflict_notification(m, t)
      [] fn = "handle_content_change" -> handle_content_change(m, t)
      [] fn = "join_campaign" -> join_campaign(m, t)
      [] fn = "leave_campaign" -> leave_campaign(m, t)
      [] fn = "handle_websocket_message" -> handle_websocket_message(m, t)

RECURSIVE Run(_, _)
Run(m, order) == IF m.cur = None THEN m ELSE Run(Step(m, order), order)

Assigned(c) ==
    /\ rooms' = c.rooms
    /\ room' = c.room
    /\ sess' = c.sess
    /\ task' = c.task
    /\ cur' = c.cur
    /\ ret' = c.ret
    /\ stream' = stream
Becomes(m) == Assigned(Collected(m))

(* ---- streaming_service.py: StreamingManager ---- *)
StreamSessions == {"s1", "s2"}
Results == {"r1", "r2"}
Raises == "raises"
GENERATION_START == "generation_start"
GENERATION_COMPLETE == "generation_complete"
GENERATION_ERROR == "generation_error"
(* StreamingManager.__init__, no generator yet; a websocket is open, closed (send_text raises *)
(* WebSocketDisconnect) or broken (send_text raises another exception)                        *)
NoStream ==
    [active_connections |-> {}, active_sessions |-> {}, socket |-> [s \in StreamSessions |-> "open"],
     pc |-> "idle", session_id |-> None, outcome |-> None, yielded |-> <<>>, written |-> {}]
Update(type, s, result) == [type |-> type, session_id |-> s, result |-> result]

(* StreamingManager.connect: the accepted websocket is registered and greeted *)
connect(st, s) ==
    [st EXCEPT !.active_connections = @ \cup {s}, !.active_sessions = @ \cup {s}, !.socket[s] = "open",
               !.written = @ \cup {[to |-> s, type |-> "connection_established"]}]
(* StreamingManager.disconnect *)
disconnect(st, s) == [st EXCEPT !.active_connections = @ \ {s}, !.active_sessions = @ \ {s}]
(* create_streaming_session: a session without a connection *)
create_streaming_session(st, s) == [st EXCEPT !.active_sessions = @ \cup {s}]
(* StreamingManager.send_to_session: never raises *)
send_to_session(st, s, data) ==
    IF s \notin st.active_connections THEN st
    ELSE CASE st.socket[s] = "open" -> [st EXCEPT !.written = @ \cup {[to |-> s, type |-> data.type]}]
           [] st.socket[s] = "closed" -> disconnect(st, s)
           [] st.socket[s] = "broken" -> st

(* stream_content_generation without its try ... except *)
stream_content_generation_uncaught(st, outcome) ==
    LET s == st.session_id
        yield(st1, d, pc) == [st1 EXCEPT !.yielded = Append(@, d), !.pc = pc] IN
    CASE st.pc = "start" ->
           LET d == Update(GENERATION_START, s, None) IN yield(send_to_session(st, s, d), d, "at_start")
      [] st.pc = "at_start" -> [st EXCEPT !.pc = "generating"]
      [] st.pc = "generating" ->
           IF outcome \in Results
           THEN LET d == Update(GENERATION_COMPLETE, s, outcome) IN
                yield([send_to_session(st, s, d) EXCEPT !.outcome = outcome], d, "at_end")
           ELSE [st EXCEPT !.outcome = outcome, !.pc = "done"]
      [] st.pc = "at_end" -> [st EXCEPT !.pc = "done"]

(* StreamingManager.stream_content_generation, an async generator: from one await or yield *)
(* to the next; outcome is what generation_function does when it is awaited               *)
stream_content_generation(st, outcome) ==
    LET s == st.session_id
        yield(st1, d, pc) == [st1 EXCEPT !.yielded = Append(@, d), !.pc = pc] IN
    CASE st.pc = "start" ->
           LET d == Update(GENERATION_START, s, None) IN yield(send_to_session(st, s, d), d, "at_start")
      [] st.pc = "at_start" -> [st EXCEPT !.pc = "generating"]
      [] st.pc = "generating" ->
           IF outcome \in Results
           THEN LET d == Update(GENERATION_COMPLETE, s, outcome) IN
                yield([send_to_session(st, s, d) EXCEPT !.outcome = outcome], d, "at_end")
           ELSE LET d == Update(GENERATION_ERROR, s, None) IN
                yield([send_to_session(st, s, d) EXCEPT !.outcome = outcome], d, "at_end")
      [] st.pc = "at_end" -> [st EXCEPT !.pc = "done"]

Init ==
    /\ rooms = [c \in Campaigns |-> 0]
    /\ room = [r \in 1..MaxRooms |-> NewRoom]
    /\ sess = [s \in 1..MaxSessions |-> FreeSession]
    /\ task = [t \in Tasks |-> IdleTask]
    /\ cur = None
    /\ ret = <<>>
    /\ stream = NoStream

Idle(t) == task[t].stack = <<>>
FirstIdle(t) == Idle(t) /\ \A i, j \in 1..Len(TaskOrder) : (TaskOrder[j] = t /\ i < j) => ~Idle(TaskOrder[i])
(* nothing of the last action is left to look at *)
Quiet == ret = <<>> /\ \A t \in Tasks : Idle(t) => task[t] = IdleTask

(* ---- the event loop ---- *)
(* a coroutine that serves a connection calls into the manager and runs to its first await *)
Start(t, fr, op, serial) ==
    /\ Quiet /\ FirstIdle(t)
    /\ serial => \A s \in Tasks : Idle(s)
    /\ \E order \in Orders(Fields) :
          Becomes(Run([M EXCEPT !.task[t] = [stack |-> <<fr>>, op |-> op, sent |-> <<>>, res |-> "running"],
                                !.cur = t], order))

StartJoin(t, serial) ==
    \E c \in Campaigns, u \in Users :
        /\ \E s \in 1..MaxSessions : s \notin RefSess(room, task)
        /\ rooms[c] # 0 \/ \E r \in 1..MaxRooms : r \notin RefRooms(rooms, task)
        /\ Start(t, [Frame0 EXCEPT !.fn = "join_campaign", !.c = c, !.uid = u],
                 [kind |-> "join", c |-> c, uid |-> u, f |-> None], serial)

StartLeave(t, serial) ==
    \E c \in Campaigns, u \in Users :
        Start(t, [Frame0 EXCEPT !.fn = "leave_campaign", !.c = c, !.uid = u, !.rid = rooms[c]],
              [kind |-> "leave", c |-> c, uid |-> u, f |-> None], serial)

StartMessage(t, serial, actors, kinds, fields) ==
    \E c \in Campaigns, u \in actors, k \in kinds, f \in fields, v \in Values, p \in Positions :
        /\ k \notin {CONTENT_CHANGED, LOCK_ACQUIRED, LOCK_RELEASED} => f = CHOOSE g \in fields : TRUE
        /\ Start(t, [Frame0 EXCEPT !.fn = "handle_websocket_message", !.c = c, !.uid = u,
                                   !.kind = k, !.f = f, !.new = v, !.position = p],
                 [kind |-> k, c |-> c, uid |-> u, f |-> f], serial)

(* an awaited websocket.send_text completes (or throws) and its coroutine runs on *)
Resume(t) ==
    /\ Quiet /\ ~Idle(t)
    /\ \E order \in Orders(Fields) : Becomes(Run([M EXCEPT !.cur = t], order))

(* the results of the last action are dropped *)
Reap ==
    /\ ~Quiet
    /\ task' = [t \in Tasks |-> IF Idle(t) THEN IdleTask ELSE task[t]]
    /\ ret' = <<>>
    /\ UNCHANGED <<rooms, room, sess, cur, stream>>

(* ---- CollaborationManager.cleanup_inactive_rooms: no await, one step ---- *)
cleanup_inactive_rooms ==
    /\ Quiet
    /\ \E c \in Campaigns : rooms[c] # 0
    /\ Becomes([M EXCEPT !.rooms = [c \in Campaigns |-> IF rooms[c] # 0 /\ room[rooms[c]].stale THEN 0 ELSE rooms[c]]])

(* a client's connection drops: its websocket leaves the CONNECTED state *)
TransportFailure ==
    /\ Quiet
    /\ \E sid \in RefSess(room, task) :
          /\ sess[sid].conn
          /\ Becomes([M EXCEPT !.sess[sid].conn = FALSE])

(* more than an hour passes: every room's last_activity becomes older than 3600 s *)
HourPasses ==
    /\ Quiet
    /\ \E r \in RefRooms(rooms, task) : ~room[r].stale
    /\ Becomes([M EXCEPT !.room = [r \in 1..MaxRooms |-> [room[r] EXCEPT !.stale = TRUE]]])

(* the callers await every operation before they start the next one *)
Next ==
    \/ \E t \in Tasks : StartJoin(t, TRUE) \/ StartLeave(t, TRUE)
                          \/ StartMessage(t, TRUE, Users, MessageKinds, Fields) \/ Resume(t)
    \/ Reap
    \/ cleanup_inactive_rooms
    \/ TransportFailure
    \/ HourPasses

Spec == Init /\ [][Next]_vars

(* one coroutine per connection: an operation starts while another is suspended in a send *)
NextConc ==
    \/ \E t \in Tasks : StartJoin(t, FALSE) \/ StartLeave(t, FALSE)
                          \/ StartMessage(t, FALSE, ConcActors, ConcKinds, ConcFields) \/ Resume(t)
    \/ Reap

SpecConc == Init /\ [][NextConc]_vars

(* ---- the streaming manager and the consumer of one generator ---- *)
Collaboration == <<rooms, room, sess, task, cur, ret>>
Connect == \E s \in StreamSessions : stream' = connect(stream, s) /\ UNCHANGED Collaboration
Disconnect ==
    \E s \in StreamSessions :
        /\ s \in stream.active_connections \cup stream.active_sessions
        /\ stream' = disconnect(stream, s) /\ UNCHANGED Collaboration
CreateSession ==
    \E s \in StreamSessions :
        /\ s \notin stream.active_sessions
        /\ stream' = create_streaming_session(stream, s) /\ UNCHANGED Collaboration
SocketFails ==
    \E s \in StreamSessions, how \in {"closed", "broken"} :
        /\ stream.socket[s] = "open"
        /\ stream' = [stream EXCEPT !.socket[s] = how] /\ UNCHANGED Collaboration
(* a caller makes the generator for a session id; nothing of it runs before the first request *)
StartStream ==
    \E s \in StreamSessions :
        /\ stream.pc \in {"idle", "done"}
        /\ stream' = [stream EXCEPT !.pc = "start", !.session_id = s, !.outcome = None,
                                    !.yielded = <<>>, !.written = {}]
        /\ UNCHANGED Collaboration
(* the consumer asks for the next update, or an await of the generator completes *)
Advance ==
    /\ stream.pc \in {"start", "at_start", "generating", "at_end"}
    /\ \E outcome \in Results \cup {Raises} : stream' = stream_content_generation(stream, outcome)
    /\ UNCHANGED Collaboration

NextStream == Connect \/ Disconnect \/ CreateSession \/ SocketFails \/ StartStream \/ Advance

SpecStream == Init /\ [][NextStream]_vars

(* ---- what the last action's calls did ---- *)
Ended == {ret[i] : i \in 1..Len(ret)}
Calls(fn) == {r \in Ended : r.fr.fn = fn}
(* the sends the call's coroutine made between the call and its end, in order *)
SentDuring(r) == SubSeq(task[r.t].sent, r.fr.n0 + 1, r.n1)
RoomOf(c) == room[rooms[c]]

(* C2: in every reachable state of a room, every holder recorded in content_locks *)
(* is an actor present in users (no orphaned locks).                               *)
C2_NoOrphanedLocks ==
    \A c \in Campaigns : rooms[c] # 0 =>
        \A f \in Fields : RoomOf(c).content_locks[f] # None
                            => RoomOf(c).content_locks[f] \in Keys(M, RoomOf(c).users)

(* C3: when remove_user(A) has returned, no field-path of the lock table maps to A. *)
C3_RemovedHoldsNothing ==
    \A r \in Calls("remove_user") :
        r.fr.val = None => \A f \in Fields : r.post.locks[f] # r.fr.uid

(* C6: release_lock(X, f) where X is not the holder of f returns having changed     *)
(* neither the lock table nor any session's active_locks, and having sent nothing.  *)
C6_ForeignReleaseIsNoOp ==
    \A r \in Calls("release_lock") :
        r.fr.pre.locks[r.fr.f] # r.fr.uid
            => r.fr.val = None /\ r.post = r.fr.pre /\ r.n1 = r.fr.n0

(* a release by an actor of the room, of a path that another actor holds, has returned *)
C6_Witness ==
    \E r \in Calls("release_lock") :
        /\ r.fr.pre.locks[r.fr.f] \notin {None, r.fr.uid}
        /\ r.fr.uid \in r.fr.pre.keys
        /\ r.fr.pre.locks[r.fr.f] \in r.fr.pre.keys

(* C10: remove_user(A) called when A is not in users returns having changed no room *)
(* state and having sent no event.                                                  *)
C10_RemoveAbsentIsNoOp ==
    \A r \in Calls("remove_user") :
        r.fr.uid \notin r.fr.pre.keys
            => r.fr.val = None /\ r.post = r.fr.pre /\ r.n1 = r.fr.n0

(* remove_user of an absent actor has returned in a room that has other participants *)
C10_Witness ==
    \E r \in Calls("remove_user") :
        r.fr.uid \notin r.fr.pre.keys /\ r.fr.pre.keys # {} /\ r.fr.val = None

(* the sends of the call that carry events of one type *)
SentOfType(r, type) == SelectSeq(SentDuring(r), LAMBDA x : x.ev.type = type)
Count(seq, x) == Cardinality({i \in 1..Len(seq) : seq[i] = x})
LockedByOther(r) == r.fr.pre.locks[r.fr.f] \notin {None, r.fr.uid}
Rejected(r) ==
    /\ r.fr.val = None
    /\ r.post.hist = r.fr.pre.hist
    /\ r.post.locks = r.fr.pre.locks
    /\ SentOfType(r, CONTENT_CHANGED) = <<>>
OneConflictToRequester(r) ==
    /\ Len(SentDuring(r)) = 1
    /\ SentDuring(r)[1].to = r.fr.uid
    /\ SentDuring(r)[1].ev.type = CONFLICT_DETECTED
    /\ SentDuring(r)[1].ev.f = r.fr.f
    /\ SentDuring(r)[1].ev.who = {r.fr.pre.locks[r.fr.f]}

(* C7 as stated: handle_content_change(B, f) on a path locked by another actor      *)
(* leaves the change log and the lock table unchanged, broadcasts no                *)
(* CONTENT_CHANGED and sends exactly one CONFLICT_DETECTED, naming the holder, to   *)
(* B and to nobody else.                                                            *)
C7_ConflictNotifiesRequester ==
    \A r \in Calls("handle_content_change") :
        LockedByOther(r) => Rejected(r) /\ OneConflictToRequester(r)

(* C7 amended: the same, with the one CONFLICT_DETECTED sent when B has a session   *)
(* in the room, and nothing sent at all when B has none.                            *)
C7_ConflictNotifiesPresentRequester ==
    \A r \in Calls("handle_content_change") :
        LockedByOther(r) =>
            /\ Rejected(r)
            /\ IF r.fr.uid \in r.fr.pre.keys THEN OneConflictToRequester(r) ELSE SentDuring(r) = <<>>

(* an edit by an actor of the room on a path another actor holds has been rejected *)
C7_Witness ==
    \E r \in Calls("handle_content_change") :
        LockedByOther(r) /\ r.fr.uid \in r.fr.pre.keys /\ r.fr.pre.locks[r.fr.f] \in r.fr.pre.keys

(* C9 as stated: the SYNC_RESPONSE that add_user sends to the joining actor J lists *)
(* exactly the actors that were in users immediately before the join, J excepted.   *)
C9_SnapshotListsThosePresentBefore ==
    \A r \in Calls("add_user") :
        \A i \in 1..Len(SentOfType(r, SYNC_RESPONSE)) :
            SentOfType(r, SYNC_RESPONSE)[i].ev.who = r.fr.pre.keys \ {r.fr.uid}

(* C9 amended: add_user sends J one SYNC_RESPONSE, which lists exactly the actors    *)
(* other than J that are in users when the snapshot is built: after the USER_JOINED *)
(* broadcast and the removal of the sessions that broadcast could not write to.     *)
C9_SnapshotListsThosePresentAfterBroadcast ==
    \A r \in Calls("add_user") :
        r.fr.val = None =>
        /\ Len(SentOfType(r, SYNC_RESPONSE)) = 1
        /\ SentOfType(r, SYNC_RESPONSE)[1].to = r.fr.uid
        /\ SentOfType(r, SYNC_RESPONSE)[1].ev.who = r.post.keys \ {r.fr.uid}

(* a join has completed whose snapshot leaves out an actor that was present before it *)
C9_Witness ==
    \E r \in Calls("add_user") :
        /\ Len(SentOfType(r, SYNC_RESPONSE)) = 1
        /\ SentOfType(r, SYNC_RESPONSE)[1].ev.who # r.fr.pre.keys \ {r.fr.uid}

(* C1: a path has one holder at most, and of the acquire_lock calls for a path the  *)
(* one that finds it unheld returns true and every call that finds it held returns  *)
(* false.                                                                           *)
C1_ExactlyOneAcquires ==
    \A r \in Calls("acquire_lock") :
        r.fr.val = IF r.fr.pre.locks[r.fr.f] = None THEN "True" ELSE "False"

(* the room operation a suspended coroutine is in, and its room *)
RoomMutating == {"add_user", "remove_user", "acquire_lock", "release_lock", "handle_content_change"}
InRoomOperation(t) == ~Idle(t) /\ task[t].stack[2].fn \in RoomMutating
OperationRoom(t) == Snapshot(M, task[t].stack[2].rid)

(* C4: while a room-mutating operation is suspended in a send, no other operation   *)
(* changes its room's session map, lock table or change log.                        *)
C4_OperationsAreAtomic ==
    [][\A t \in Tasks :
          (InRoomOperation(t) /\ task'[t].sent = task[t].sent) => OperationRoom(t)' = OperationRoom(t)]_vars

C8_BroadcastReachesAllButExcluded ==
    \A r \in Calls("broadcast_event") :
        /\ Count(r.fr.att, r.fr.excl) = 0
        /\ \A u \in (r.fr.pre.keys \cap r.post.keys) \ {r.fr.excl} : Count(r.fr.att, u) = 1

(* the events about actor a that the call wrote to participant u, in order *)
AboutTo(r, a, u, types) ==
    SelectSeq(SentDuring(r), LAMBDA x : x.to = u /\ x.ev.user = a /\ x.ev.type \in types)
HeldBy(snap, a) == {f \in Fields : snap.locks[f] = a}

(* C11: when remove_user removes an actor A that holds n locks, every remaining     *)
(* participant is sent exactly n LOCK_RELEASED for A, one per path A held, and      *)
(* then exactly one USER_LEFT for A.                                                *)
C11_ReleasesThenLeft ==
    \A r \in Calls("remove_user") :
        r.fr.uid \in r.fr.pre.keys =>
            /\ r.fr.val = None
            /\ \A u \in r.post.keys :
                  LET evs == AboutTo(r, r.fr.uid, u, {LOCK_RELEASED, USER_LEFT})
                      n == Cardinality(HeldBy(r.fr.pre, r.fr.uid)) IN
                  /\ Len(evs) = n + 1
                  /\ evs[n + 1].ev.type = USER_LEFT
                  /\ {evs[i].ev.f : i \in 1..n} = HeldBy(r.fr.pre, r.fr.uid)
                  /\ \A i \in 1..n : evs[i].ev.type = LOCK_RELEASED

(* what acquire_lock(X, f) does when f has no holder, and when it has one *)
Acquired(r) ==
    /\ r.fr.val = "True"
    /\ \A u \in (r.fr.pre.keys \cap r.post.keys) \ {r.fr.uid} :
          Len(AboutTo(r, r.fr.uid, u, {LOCK_ACQUIRED})) = 1
    /\ AboutTo(r, r.fr.uid, r.fr.uid, {LOCK_ACQUIRED}) = <<>>
    /\ r.fr.uid \in r.post.keys => r.post.locks[r.fr.f] = r.fr.uid
Refused(r) == r.fr.val = "False" /\ r.post = r.fr.pre /\ r.n1 = r.fr.n0

(* C12: acquire_lock(X, f) returns true, records X as the holder of f and sends      *)
(* LOCK_ACQUIRED to the other participants when f has no holder at the call;         *)
(* otherwise it returns false, changes nothing and sends nothing.                   *)
C12_AcquireContract ==
    \A r \in Calls("acquire_lock") :
        IF r.fr.pre.locks[r.fr.f] = None THEN Acquired(r) ELSE Refused(r)

(* the calls that are suspended after this step or that ended in it, as they were entered *)
Entered ==
    UNION {{task'[t].stack[k] : k \in 1..Len(task'[t].stack)} : t \in Tasks}
        \cup {ret'[i].fr : i \in 1..Len(ret')}
HolderStep(c, f) ==
    LET before == room[rooms[c]].content_locks[f]
        after == room'[rooms'[c]].content_locks[f] IN
    before # after =>
        /\ before = None \/ after = None
        /\ before = None => \E fr \in Entered :
                               /\ fr.fn = "acquire_lock" /\ fr.uid = after /\ fr.f = f
                               /\ fr.pre.locks[f] = None
        /\ after = None => \E fr \in Entered :
                              /\ fr.fn = "release_lock" /\ fr.uid = before /\ fr.f = f
                              /\ fr.pre.locks[f] = before

(* C13: the holder of a path never changes from one actor to another in a step: an  *)
(* entry of the lock table appears only with an acquire_lock of that actor on the   *)
(* unheld path, and disappears only with a release_lock of its holder.              *)
C13_NoSilentReassignment ==
    [][\A c \in Campaigns, f \in Fields : (rooms[c] # 0 /\ rooms'[c] # 0) => HolderStep(c, f)]_vars
C13_Witness ==
    \E r \in Calls("acquire_lock") :
        /\ r.fr.pre.locks[r.fr.f] \notin {None, r.fr.uid}
        /\ r.fr.val = "False"
        /\ r.post.locks[r.fr.f] = r.fr.pre.locks[r.fr.f]

(* a step of the sweep: no coroutine ran, and the directory lost the room of c *)
Swept(c) == task' = task /\ ret' = ret /\ rooms[c] # 0 /\ rooms'[c] = 0

(* C15: the sweep removes a room from the directory only if its session map is      *)
(* empty; a room that has a session is never removed by the sweep.                  *)
C15_SweepSparesOccupiedRooms ==
    [][\A c \in Campaigns : Swept(c) => room[rooms[c]].users = <<>>]_vars

(* the room of c left the directory in this step *)
Dropped(c) == rooms[c] # 0 /\ rooms'[c] = 0
(* a leave_campaign(c, .) that returned in this step, having found the session map empty *)
LeftEmpty(c) ==
    \E i \in 1..Len(ret') :
        /\ ret'[i].fr.fn = "leave_campaign" /\ ret'[i].fr.c = c /\ ret'[i].fr.val = None
        /\ ret'[i].post.keys = {}

(* C16 as stated: a room leaves the directory only in a step of the sweep, after     *)
(* its window has elapsed; the leave of the last participant keeps it.              *)
C16_OnlyTheSweepDropsRooms ==
    [][\A c \in Campaigns : Dropped(c) => (Swept(c) /\ room[rooms[c]].stale)]_vars

(* C16 amended: a room leaves the directory either in a step of the sweep, its      *)
(* last_activity being older than the window, or at the end of a leave_campaign     *)
(* that found its session map empty; a leave_campaign that returns never leaves an  *)
(* empty room in the directory.                                                     *)
C16_LastLeaveOrSweepDropsRooms ==
    [][\A c \in Campaigns :
          /\ Dropped(c) => ((Swept(c) /\ room[rooms[c]].stale) \/ LeftEmpty(c))
          /\ \A i \in 1..Len(ret') :
                (ret'[i].fr.fn = "leave_campaign" /\ ret'[i].fr.c = c /\ ret'[i].fr.val = None)
                    => (rooms'[c] = 0 \/ room'[rooms'[c]].users # <<>>)]_vars
C16_Witness ==
    \E l \in Calls("leave_campaign"), r \in Calls("remove_user") :
        /\ l.t = r.t /\ l.fr.val = None /\ rooms[l.fr.c] = 0
        /\ r.fr.uid = l.fr.uid /\ r.fr.pre.keys = {r.fr.uid} /\ r.post.keys = {}

(* C17: when a send of a broadcast fails, then at the return of that broadcast the  *)
(* session is out of the session map, no path is recorded as held by its actor,     *)
(* and USER_LEFT for the actor has been sent to every participant that remains.     *)
C17_FailedSendRemovesSession ==
    \A r \in Calls("broadcast_event") :
        \A x \in {SentDuring(r)[i] : i \in 1..Len(SentDuring(r))} :
            (~x.ok /\ x.ev = r.fr.ev) =>
                /\ r.fr.val = None
                /\ x.to \notin r.post.keys
                /\ HeldBy(r.post, x.to) = {}
                /\ \A u \in r.post.keys : Len(AboutTo(r, x.to, u, {USER_LEFT})) = 1

(* what add_user(J) wrote: USER_JOINED to the others, then one SYNC_RESPONSE, to J *)
JoinedThenSnapshot(r) ==
    LET sent == SentDuring(r)
        J == r.fr.uid
        joined == {i \in 1..Len(sent) : sent[i].ev.type = USER_JOINED /\ sent[i].ev.user = J}
        sync == {i \in 1..Len(sent) : sent[i].ev.type = SYNC_RESPONSE} IN
    /\ \A u \in r.fr.pre.keys \ {J} : \E i \in joined : sent[i].to = u
    /\ \A i \in joined : sent[i].to # J
    /\ Cardinality(sync) = 1
    /\ \A i \in sync : sent[i].to = J /\ \A k \in joined : k < i

(* C18: add_user(J) sends USER_JOINED for J to every other participant and never to *)
(* J, sends SYNC_RESPONSE to J and to nobody else, and sends it after the last      *)
(* USER_JOINED.                                                                     *)
C18_JoinedThenSnapshot == \A r \in Calls("add_user") : JoinedThenSnapshot(r)

(* C19: handle_content_change(X, f, old, new, op) on a path that is unlocked or     *)
(* locked by X appends exactly one entry (actor X, path f, the new value) to the    *)
(* change log and sends one CONTENT_CHANGED for it to every participant other than  *)
(* X, and none to X.                                                                *)
C19_EditIsLoggedAndBroadcast ==
    \A r \in Calls("handle_content_change") :
        ~LockedByOther(r) =>
            /\ r.fr.val = None
            /\ Len(r.post.hist) = Len(r.fr.pre.hist) + 1
            /\ SubSeq(r.post.hist, 1, Len(r.fr.pre.hist)) = r.fr.pre.hist
            /\ LET e == r.post.hist[Len(r.post.hist)] IN
               e.user_id = r.fr.uid /\ e.details.field_path = r.fr.f /\ e.details.new_value = r.fr.new
            /\ \A u \in (r.fr.pre.keys \cap r.post.keys) \ {r.fr.uid} :
                  Len(AboutTo(r, r.fr.uid, u, {CONTENT_CHANGED})) = 1
            /\ AboutTo(r, r.fr.uid, r.fr.uid, {CONTENT_CHANGED}) = <<>>

(* the exceptions that end a coroutine of this module *)
Exceptions == {"KeyError", "RuntimeError", "ValidationError"}
RoomOperations == {"add_user", "remove_user", "acquire_lock", "release_lock", "broadcast_event"}

(* C21: whatever sessions have a failed transport, add_user, remove_user,           *)
(* acquire_lock, release_lock and broadcast_event run to completion: none of them   *)
(* is ended by an exception.                                                        *)
C21_NoOperationAborts ==
    \A r \in Ended : r.fr.fn \in RoomOperations => r.fr.val \notin Exceptions

(* the broadcasts of type that task t made for actor u, the actor excluded *)
Relayed(t, type, u) ==
    {b \in Calls("broadcast_event") :
        b.t = t /\ b.fr.ev.type = type /\ b.fr.ev.user = u /\ b.fr.excl = u}

(* C22 as stated: handle_cursor_movement leaves the lock table and the change log   *)
(* as they were at the call.                                                        *)
C22_CursorLeavesLocksAndLog ==
    \A r \in Calls("handle_cursor_movement") :
        r.post.locks = r.fr.pre.locks /\ r.post.hist = r.fr.pre.hist

(* C22 amended: handle_cursor_movement leaves the change log unchanged and requests *)
(* no persistence; the lock table changes only by the release of paths whose holder *)
(* was removed after a failed send; and a sender that is in the room has its        *)
(* CURSOR_MOVED broadcast, itself excluded, whichever paths are locked.             *)
C22_CursorIsRelayedWhateverIsLocked ==
    \A r \in Calls("handle_cursor_movement") :
        /\ r.post.hist = r.fr.pre.hist
        /\ \A p \in Calls("persist_change") : p.t # r.t
        /\ \A f \in Fields :
              r.post.locks[f] # r.fr.pre.locks[f] =>
                  r.post.locks[f] = None /\ r.fr.pre.locks[f] \notin r.post.keys
        /\ r.fr.uid \in r.fr.pre.keys => Relayed(r.t, CURSOR_MOVED, r.fr.uid) # {}
C22_Witness ==
    \E r \in Calls("handle_cursor_movement") :
        /\ r.fr.uid \in r.fr.pre.keys
        /\ \E f \in Fields : r.fr.pre.locks[f] \notin {None, r.fr.uid}
        /\ \E i \in 1..Len(SentDuring(r)) :
              SentDuring(r)[i].ev.type = CURSOR_MOVED /\ SentDuring(r)[i].ok

(* C23: send_event never raises: it returns True when the event was written to a   *)
(* connected transport, and returns False, the room's session map, lock table and   *)
(* change log being as they were at the call, when the transport is not connected   *)
(* or the write throws.                                                             *)
C23_SendNeverRaises ==
    \A r \in Calls("send_event") :
        LET x == task[r.t].sent[r.n1] IN
        /\ r.n1 = r.fr.n0 + 1
        /\ r.fr.val = (IF x.ok THEN "True" ELSE "False")
        /\ x.ev = r.fr.ev
        /\ ~x.ok => r.post = r.fr.pre
(* a write that threw after the send had started *)
C23_Witness ==
    \E r \in Calls("send_event") :
        /\ r.fr.pc = "wait" /\ r.fr.val = "False"
        /\ r.post = r.fr.pre /\ r.post.keys # {}

(* the room operation that handle_websocket_message calls for an event kind *)
Routes ==
    [k \in {CONTENT_CHANGED, CURSOR_MOVED, LOCK_ACQUIRED, LOCK_RELEASED, SYNC_REQUEST} |->
        CASE k = CONTENT_CHANGED -> "handle_content_change"
          [] k = CURSOR_MOVED -> "handle_cursor_movement"
          [] k = LOCK_ACQUIRED -> "acquire_lock"
          [] k = LOCK_RELEASED -> "release_lock"
          [] k = SYNC_REQUEST -> "send_current_state"]
(* task t takes a message from its connection in this step *)
Dispatched(t) == task[t] = IdleTask /\ task'[t].op.kind \in MessageKinds
(* the step called fn on the room of the message, for its sender (and its path) *)
Invoked(t, fn) ==
    \E fr \in Entered :
        /\ fr.fn = fn /\ fr.uid = task'[t].op.uid
        /\ fr.pre = Snapshot(M, rooms[task'[t].op.c])
        /\ task'[t].op.kind \in {CONTENT_CHANGED, LOCK_ACQUIRED, LOCK_RELEASED} => fr.f = task'[t].op.f
NothingDone(t) ==
    /\ rooms' = rooms /\ room' = room /\ sess' = sess
    /\ task'[t].stack = <<>> /\ task'[t].sent = <<>> /\ task'[t].res = None

(* C24 as stated: a message of kind join, leave, content-change, cursor,            *)
(* lock-acquire, lock-release or sync-request invokes its operation on the room of  *)
(* its campaign for its sender; a message for a campaign without a room changes     *)
(* nothing.                                                                         *)
C24_EveryKindIsRouted ==
    [][\A t \in Tasks :
          Dispatched(t) =>
              LET k == task'[t].op.kind IN
              IF rooms[task'[t].op.c] = 0 THEN NothingDone(t)
              ELSE /\ k \in DOMAIN Routes => Invoked(t, Routes[k])
                   /\ k = USER_JOINED => Invoked(t, "add_user")
                   /\ k = USER_LEFT => Invoked(t, "remove_user")]_vars

(* C24 amended: content-change, cursor, lock-acquire and lock-release messages      *)
(* invoke their operation on the room of the campaign for the sender, and so does   *)
(* a sync-request of a sender that is in the room; a message of any other kind,     *)
(* join and leave included, a sync-request of an absent sender, and a message for   *)
(* a campaign without a room change nothing and create no room.                     *)
C24_FiveKindsAreRouted ==
    [][\A t \in Tasks :
          Dispatched(t) =>
              LET k == task'[t].op.kind
                  rid == rooms[task'[t].op.c] IN
              IF \/ rid = 0
                 \/ k \notin DOMAIN Routes
                 \/ k = SYNC_REQUEST /\ task'[t].op.uid \notin Keys(M, room[rid].users)
              THEN NothingDone(t)
              ELSE Invoked(t, Routes[k])]_vars
C24_Witness ==
    \E r \in Calls("handle_websocket_message"), q \in Calls("release_lock") :
        /\ r.t = q.t /\ r.fr.kind = LOCK_RELEASED /\ r.fr.val = None
        /\ q.fr.uid = r.fr.uid /\ q.fr.f = r.fr.f
        /\ q.fr.pre.locks[q.fr.f] = q.fr.uid /\ q.post.locks[q.fr.f] = None

(* task t starts join_campaign in this step *)
Joining(t) == task[t] = IdleTask /\ task'[t].op.kind = "join"

(* C25: get_or_create_room(c) makes a room without sessions, locks and changes when *)
(* c has none, and otherwise returns the room of c as it is: the room that          *)
(* join_campaign hands its session to is the new one or the unchanged old one, and  *)
(* the directory keeps its entry.                                                   *)
C25_RoomIsCreatedOnce ==
    [][\A t \in Tasks :
          Joining(t) =>
              LET c == task'[t].op.c IN
              /\ rooms'[c] # 0
              /\ rooms[c] # 0 => rooms'[c] = rooms[c]
              /\ \E fr \in Entered :
                    /\ fr.fn = "add_user" /\ fr.uid = task'[t].op.uid
                    /\ fr.pre = (IF rooms[c] = 0 THEN NoSnap ELSE Snapshot(M, rooms[c]))]_vars
(* a join into a room that had a session and a lock, which it kept *)
C25_Witness ==
    \E r \in Calls("add_user"), j \in Calls("join_campaign") :
        /\ r.t = j.t /\ j.fr.val = None
        /\ r.fr.pre.keys \ {r.fr.uid} # {}
        /\ \E f \in Fields : r.fr.pre.locks[f] # None /\ r.post.locks[f] = r.fr.pre.locks[f]

(* C26: stream_content_generation yields generation_start first and then exactly   *)
(* one terminal update, generation_complete with the result when the generation     *)
(* function returned and generation_error when it raised, whether or not the        *)
(* session has a connection.                                                        *)
C26_StartThenOneTerminal ==
    LET y == stream.yielded IN
    /\ Len(y) <= 2
    /\ Len(y) >= 1 => y[1] = Update(GENERATION_START, stream.session_id, None)
    /\ stream.pc \in {"at_start", "generating"} => Len(y) = 1
    /\ stream.pc \in {"at_end", "done"} => Len(y) = 2
    /\ Len(y) = 2 =>
          y[2] = (IF stream.outcome \in Results
                  THEN Update(GENERATION_COMPLETE, stream.session_id, stream.outcome)
                  ELSE Update(GENERATION_ERROR, stream.session_id, None))
(* a generation that raised for a session without a connection, iterated to its end *)
C26_Witness ==
    /\ stream.pc = "done" /\ stream.outcome = Raises
    /\ stream.session_id \notin stream.active_connections
    /\ stream.yielded[2].type = GENERATION_ERROR

(* C27: between the operations of a room, the active_locks of every session of its *)
(* session map is the set of paths that content_locks maps to the session's actor.  *)
C27_ActiveLocksMatchLockTable ==
    (\A t \in Tasks : Idle(t)) =>
        \A c \in Campaigns : rooms[c] # 0 =>
            \A i \in 1..Len(RoomOf(c).users) :
                LET x == sess[RoomOf(c).users[i]] IN
                x.active_locks = {f \in Fields : RoomOf(c).content_locks[f] = x.uid}

(* the call q of remove_user was made, for the same actor, while the call r was in  *)
(* its lock releases, and both found the actor in the session map                   *)
RemovedWhileRemoving(r, q) ==
    /\ r # q /\ r.t = q.t /\ r.fr.uid = q.fr.uid
    /\ r.fr.uid \in r.fr.pre.keys /\ q.fr.uid \in q.fr.pre.keys
    /\ r.fr.n0 <= q.fr.n0 /\ q.n1 <= r.n1

(* C28: when remove_user(A) is called while an earlier remove_user(A) is in its     *)
(* lock-release broadcasts, A is removed once: neither call ends at the deletion of *)
(* a session that is gone, and no participant is sent USER_LEFT for A twice.        *)
C28_RemovedOnceWhenRemovedTwice ==
    \A r, q \in Calls("remove_user") :
        RemovedWhileRemoving(r, q) =>
            /\ r.fr.val = None /\ q.fr.val = None
            /\ \A u \in Users : Len(AboutTo(r, r.fr.uid, u, {USER_LEFT})) <= 1

(* while the remove_user q of a leave_campaign ran, another participant left the    *)
(* session map (where no transport fails, through a leave_campaign of its own)      *)
OtherLeftMeanwhile(q) ==
    /\ q.fr.uid \in q.fr.pre.keys
    /\ (q.fr.pre.keys \ q.post.keys) \ {q.fr.uid} # {}

(* C29: when two participants of a room run leave_campaign at the same time, both   *)
(* calls return, both actors are out of the session map, and the directory is       *)
(* without the emptied room: no leave_campaign is ended by a lookup of a room that  *)
(* is gone or by a session map that changed under a broadcast.                      *)
C29_ConcurrentLeavesComplete ==
    \A r \in Calls("leave_campaign"), q \in Calls("remove_user") :
        (q.t = r.t /\ q.fr.uid = r.fr.uid /\ OtherLeftMeanwhile(q)) =>
            /\ r.fr.val = None /\ q.fr.val = None
            /\ r.fr.uid \notin r.post.keys
            /\ r.post.keys = {} => rooms[r.fr.c] = 0 \/ RoomOf(r.fr.c).users # <<>>

(* the call q was made and ended while the call b of broadcast_event ran            *)
InChainOf(b, q) == q.t = b.t /\ b.fr.n0 <= q.fr.n0 /\ q.n1 <= b.n1

(* C30: every broadcast ends by returning, whatever the population and whichever    *)
(* sends fail, and in the chain of removals and further broadcasts it sets off no   *)
(* session is taken for removal more than once.                                     *)
C30_BroadcastChainEnds ==
    \A b \in Calls("broadcast_event") :
        /\ b.fr.val = None
        /\ \A q1, q2 \in Calls("remove_user") :
               ( /\ InChainOf(b, q1) /\ InChainOf(b, q2)
                 /\ q1.fr.uid = q2.fr.uid
                 /\ q1.fr.uid \in q1.fr.pre.keys /\ q2.fr.uid \in q2.fr.pre.keys ) => q1 = q2

(* ChangeEntry rejects the arguments of line 201, so no room ever records a change  *)
(* and no call of persist_change is ever made.                                       *)
NoChangeIsRecorded ==
    /\ \A r \in 1..MaxRooms : room[r].change_history = <<>>
    /\ Calls("persist_change") = {}
    /\ \A r \in Calls("handle_content_change") :
          r.fr.val = None => LockedByOther(r)

TypeOK ==
    /\ cur = None
    /\ \A t \in Tasks : ~Idle(t) => Top(M, t).fn = "send_event" /\ Top(M, t).pc = "wait"
====
